---- MODULE Spec2Model ----
(***************************************************************************)
(* Authentication & session security engine of the-circle backend:         *)
(* AuthService (services/auth.rs), SecurityService (services/security.rs)  *)
(* and the User model (models/user.rs), over the relational store they     *)
(* talk to.                                                                 *)
(*                                                                         *)
(* Every request is a task that runs concurrently with the others; a task  *)
(* advances by one database statement per step (each `.await` on the pool  *)
(* is one step), so the interleavings of the model are the interleavings   *)
(* of statements against the shared store.  A statement may fail (a        *)
(* sqlx::Error); the number of injected failures is bounded by MaxFaults.  *)
(*                                                                         *)
(* The store is the tables the statements of the source name.  Statements  *)
(* outside a transaction commit on their own; the statements of            *)
(* trigger_destruction run in one transaction whose writes become visible  *)
(* at commit and are discarded when the transaction is dropped.  No        *)
(* referential constraint between tables is assumed: none is stated in the *)
(* source.                                                                 *)
(*                                                                         *)
(* Time is in minutes.                                                     *)
(***************************************************************************)
EXTENDS Integers, Sequences, FiniteSets, TLC

\* ------------------------------------------------------------------ bounds
NumTasks    == 2      \* concurrent request tasks
MaxUsers    == 2      \* user ids ever handed out
MaxSessions == 2      \* successful logins ever completed
MaxFaults   == 1      \* injected statement failures
MaxTime     == 15     \* the clock stops advancing here
TickMinutes == 15     \* granularity of the clock
MaxIssueTime == 1     \* tokens presented for verification were issued up to here
MaxEvents == 2        \* rows the event logger stores when it runs on its own
NumSockets == 2       \* WebSocket connections opened
MaxAuth == 2          \* Authenticate messages one connection sends
MaxTokenTime == 63    \* the clock of token verification stops here

\* ------------------------------------------------------- program constants
LockThreshold        == 3     \* auth.rs:252  failed_login_attempts + 1 >= 3
LockMinutes          == 15    \* auth.rs:252  INTERVAL '15 minutes'
DestructionThreshold == 5     \* auth.rs:279  failed_count >= 5
LoginStepMinutes     == 5     \* auth.rs:162  Duration::minutes(5)
ValidationLeeway     == 1     \* auth.rs:340  Validation::default(): leeway of 60 seconds
JwtExpiration        == 60    \* config.rs:28  jwt_expiration, 3600 seconds

Tasks     == 1..NumTasks
Sockets   == 1..NumSockets
UserIds   == 1..MaxUsers

\* The runs explored: requests that race each other over one account on a store
\* that does not fail, and requests served one at a time while statements may
\* fail, the clock advances and accounts are created anew.
Scenarios ==
    {[tasks |-> NumTasks, users |-> 1, sessions |-> 1, faults |-> 0, time |-> 0],
     [tasks |-> 1, users |-> MaxUsers, sessions |-> MaxSessions,
      faults |-> MaxFaults, time |-> MaxTime]}
Emails    == {"a@circle"}
Passwords == {"pw1", "pw2"}          \* passwords a login request may carry
RegisterPasswords == {"pw1"}       \* passwords a registration may carry

\* Option<T>
None       == <<>>
Some(x)    == <<x>>
IsSome(o)  == o # <<>>
Unwrap(o)  == o[1]
unwrap_or(o, d) == IF o # <<>> THEN o[1] ELSE d

\* users.mfa_enabled is Option<bool>; register_user's INSERT does not name the
\* column, the row gets the store's value.
MfaSettings == {None, Some(FALSE), Some(TRUE)}

VARIABLES
    users,             \* table users: id -> row
    user_sessions,     \* table user_sessions: set of rows
    security_events,   \* table security_events: set of rows
    subscriptions,     \* table subscriptions: set of rows
    destruction_logs,  \* table destruction_logs: set of rows
    now,               \* Utc::now() / NOW()
    nextUserId,        \* next users.id the store generates
    faults,            \* statement failures injected so far
    sockets,           \* handle_socket tasks: position and authenticated_user
    connections,       \* WebSocketService.connections: user id -> connection
    user_presence,     \* table user_presence: user id -> status
    task,              \* per request task: its position and locals
    returned,          \* the response most recently handed to a client
    scenario,          \* the limits of the run being explored
    history            \* per user id: UPDATEs of increment_failed_attempts executed since the
                       \* last reset (observation only)

vars == <<users, user_sessions, security_events, subscriptions, destruction_logs,
          now, nextUserId, faults, task, returned, scenario, history,
          sockets, connections, user_presence>>

wsVars == <<sockets, connections, user_presence>>

tables == <<users, user_sessions, security_events, subscriptions, destruction_logs>>

\* ---------------------------------------------------------------- helpers
NoTx == [log |-> {}, delSessions |-> {}, delEvents |-> {}, delSubs |-> {}, delUser |-> {}]

IdleTask ==
    [pc |-> "idle", op |-> "none", email |-> "", password |-> "",
     user_id |-> 0,      \* user.id once a row is loaded or inserted
     user |-> None,      \* the loaded row, for as long as the code still reads it
     failed_count |-> None, tx |-> NoTx,
     destruction |-> "none",   \* what trigger_destruction returned
     response |-> None,        \* the LoginResponse being built
     \* observation only
     ordinal |-> 0,            \* which UPDATE since the last reset this task's was
     logged |-> FALSE,         \* whether the request has called log_security_event
     lockedAtCheck |-> FALSE]  \* whether the stored row was locked at the lock check

NoResponse ==
    [op |-> "none", result |-> "none", user_id |-> 0, failed_count |-> None,
     destruction |-> "none", response |-> None,
     ordinal |-> 0, logged |-> FALSE, lockedAtCheck |-> FALSE]

\* A statement either succeeds or fails with a sqlx::Error (bounded).
Fault(ok) ==
    IF ok THEN faults' = faults
    ELSE faults < scenario.faults /\ faults' = faults + 1

\* A task takes a step of its request.
Step(p, t) ==
    task' = [task EXCEPT ![p] = t] /\ UNCHANGED <<returned, scenario, wsVars>>

\* The request of task p ends with result res: the handler hands it to the client
\* and the task is free again.
Done(p, t, res) ==
    /\ task' = [task EXCEPT ![p] = IdleTask]
    /\ UNCHANGED <<scenario, wsVars>>
    /\ returned' = [op |-> t.op, result |-> res, user_id |-> t.user_id,
                    failed_count |-> t.failed_count, destruction |-> t.destruction,
                    response |-> t.response,
                    ordinal |-> t.ordinal, logged |-> t.logged,
                    lockedAtCheck |-> t.lockedAtCheck]

\* Credential hasher: the salt is not modelled, the hash determines the password.
hash_password(password) == <<"argon2", password>>

verify_password(password, hash) == hash = hash_password(password)

\* models/user.rs  User::is_locked, at clock reading t
is_locked(user, t) ==
    IF IsSome(user.account_locked_until)
    THEN Unwrap(user.account_locked_until) > t
    ELSE FALSE

\* services/security.rs  calculate_risk_level
\* A table whose default arm gives 0.
calculate_risk_level_ZeroDefault(event_type) ==
    CASE event_type = "login_failed"           -> 3
      [] event_type = "login_success"          -> 1
      [] event_type = "user_registered"        -> 2
      [] event_type = "password_reset"         -> 4
      [] event_type = "destruction_triggered"  -> 10
      [] event_type = "suspicious_activity"    -> 7
      [] event_type = "multiple_failed_logins" -> 6
      [] event_type = "account_locked"         -> 5
      [] OTHER                                 -> 0

\* security.rs 112-124: the risk table, keyed by the event type alone
calculate_risk_level(event_type) ==
    CASE event_type = "login_failed"           -> 3
      [] event_type = "login_success"          -> 1
      [] event_type = "user_registered"        -> 2
      [] event_type = "password_reset"         -> 4
      [] event_type = "destruction_triggered"  -> 10
      [] event_type = "suspicious_activity"    -> 7
      [] event_type = "multiple_failed_logins" -> 6
      [] event_type = "account_locked"         -> 5
      [] OTHER                                 -> 1

\* security.rs 56-61: the tracing macro the match on risk_level picks
tracing_level(risk_level) ==
    CASE risk_level \in 1..3  -> "info"
      [] risk_level \in 4..6  -> "warn"
      [] risk_level \in 7..10 -> "error"
      [] OTHER                -> "none"

\* The event types of the risk table, and two of those the other services log,
\* which the table does not list.
EventTypes ==
    {"login_failed", "login_success", "user_registered", "password_reset",
     "destruction_triggered", "suspicious_activity", "multiple_failed_logins",
     "account_locked", "websocket_connected", "message_sent"}

\* auth.rs  find_user_by_email: SELECT * FROM users WHERE email = $1
find_user_by_email(email) ==
    LET hit == {i \in DOMAIN users : users[i].email = email}
    IN  IF hit = {} THEN None ELSE Some(users[CHOOSE i \in hit : TRUE])

\* Row ids are generated values (uuid): all that matters is that a new row differs
\* from every row in its table or held by a task.  A new row takes the least number
\* that no such row with the same columns carries.
Max(S) == IF S = {} THEN 0 ELSE CHOOSE x \in S : \A y \in S : y <= x

Held(t) == t.tx.delSessions \cup t.tx.delEvents

KnownRows ==
    user_sessions \cup security_events \cup UNION {Held(task[p]) : p \in Tasks}

Generated == {"id", "refresh_token"}    \* columns that hold generated values

WithFreshId(row) ==
    LET same == {r \in KnownRows :
                    /\ DOMAIN r = DOMAIN row
                    /\ \A f \in DOMAIN row \ Generated : r[f] = row[f]}
        n    == 1 + Max({r.id : r \in same})
    IN  [f \in DOMAIN row |-> IF f \in Generated THEN n ELSE row[f]]

FreshLogId ==
    1 + Max({r.id : r \in destruction_logs \cup UNION {task[p].tx.log : p \in Tasks}})

\* The caller's `?` on a logger that returned the Result of its INSERT.
LogOutcome_Propagate(ok, res) == IF ok THEN res ELSE "DatabaseError"

\* security.rs 39: `let _ =` drops the Result of the INSERT, and log_security_event
\* returns (): the caller goes on to its own result res.
LogOutcome(ok, res) == res

\* A logger that stores nothing.
log_security_event_Silent(user_id, event_type, details, ok) ==
    security_events' = security_events

\* security.rs  log_security_event: the INSERT; its failure is dropped (let _ =)
log_security_event(user_id, event_type, details, ok) ==
    /\ security_events' =
         IF ok
         THEN security_events \cup
              {WithFreshId([id |-> 0, user_id |-> user_id, event_type |-> event_type,
                            details |-> details,
                            risk_level |-> calculate_risk_level(event_type)])}
         ELSE security_events

\* websocket.rs 83-89: a connection before handle_socket runs for it
NewSocket == [pc |-> "new", authenticated_user |-> None, auths |-> 0]

\* ------------------------------------------------------------ environment
Init ==
    /\ users = <<>>
    /\ user_sessions = {}
    /\ security_events = {}
    /\ subscriptions = {}
    /\ destruction_logs = {}
    /\ now = 0
    /\ nextUserId = 1
    /\ faults = 0
    /\ task = [p \in Tasks |-> IdleTask]
    /\ returned = NoResponse
    /\ scenario \in Scenarios
    /\ history = [i \in UserIds |-> 0]
    /\ sockets = [s \in Sockets |-> NewSocket]
    /\ connections = {}
    /\ user_presence = {}

\* The clock advances.
Tick ==
    /\ now + TickMinutes <= scenario.time
    /\ now' = now + TickMinutes
    /\ UNCHANGED <<tables, nextUserId, faults, task, returned, scenario, history,
                   wsVars>>

\* The billing collaborator stores a subscription row for an existing user.
Subscribe(u) ==
    /\ u \in DOMAIN users
    /\ \A s \in subscriptions : s.user_id # u
    /\ subscriptions' = subscriptions \cup {[user_id |-> u, status |-> "active"]}
    /\ UNCHANGED <<users, user_sessions, security_events, destruction_logs,
                   now, nextUserId, faults, task, returned, scenario, history,
                   wsVars>>

\* A task is free for a request when it runs none.
Free(p) == p <= scenario.tasks /\ task[p].pc = "idle"

\* ---------------------------------------------------------- register_user
\* The unique constraint on users.email.
EmailUnique(email) == \A i \in DOMAIN users : users[i].email # email

\* auth.rs 109-119: the existence check (a failed lookup counts as "not there"),
\* then the password hash.
register_user_find(p, email, password, ok) ==
    /\ Free(p)
    /\ nextUserId <= scenario.users
    /\ Fault(ok)
    /\ LET t == [IdleTask EXCEPT !.op = "register_user", !.email = email,
                                 !.password = password]
       IN  IF ok /\ IsSome(find_user_by_email(email))
           THEN Done(p, t, "UserAlreadyExists")
           ELSE Step(p, [t EXCEPT !.pc = "insert_user"])
    /\ UNCHANGED <<tables, now, nextUserId, history>>

\* auth.rs 121-135: INSERT INTO users ... RETURNING *
register_user_insert(p, mfa, ok) ==
    /\ task[p].pc = "insert_user"
    /\ (ok /\ EmailUnique(task[p].email)) => nextUserId <= scenario.users
    /\ Fault(ok)
    /\ IF ok /\ EmailUnique(task[p].email)
       THEN LET row == [id |-> nextUserId, email |-> task[p].email,
                        password_hash |-> hash_password(task[p].password),
                        failed_login_attempts |-> 0,
                        account_locked_until |-> None,
                        last_login |-> None,
                        mfa_enabled |-> mfa]
            IN  /\ users' = users @@ (nextUserId :> row)
                /\ nextUserId' = nextUserId + 1
                /\ Step(p, [task[p] EXCEPT !.pc = "log_registered", !.user_id = row.id,
                                                !.email = "", !.password = ""])
       ELSE /\ Done(p, task[p], "DatabaseError")
            /\ UNCHANGED <<users, nextUserId>>
    /\ UNCHANGED <<user_sessions, security_events, subscriptions, destruction_logs,
                   now, history>>

\* auth.rs 137-148: log user_registered, return the user
register_user_log(p, ok) ==
    /\ task[p].pc = "log_registered"
    /\ Fault(ok)
    /\ log_security_event(task[p].user_id, "user_registered", None, ok)
    /\ Done(p, [task[p] EXCEPT !.logged = TRUE], LogOutcome(ok, "Ok"))
    /\ UNCHANGED <<users, user_sessions, subscriptions, destruction_logs,
                   now, nextUserId, history>>

\* --------------------------------------------------------- initiate_login
\* A step marker that never asks for MFA.
LoginStep_NoMfa(user, t) ==
    [step |-> 1, expires_at |-> t + LoginStepMinutes, requires_mfa |-> FALSE]

\* auth.rs 161-170: the LoginStep handed out at clock reading t
LoginStep(user, t) ==
    [step |-> 1, expires_at |-> t + LoginStepMinutes,
     requires_mfa |-> unwrap_or(user.mfa_enabled, FALSE)]

\* auth.rs 151-171: load the user, refuse a locked account, hand out step 1
initiate_login(p, email, ok) ==
    /\ Free(p)
    /\ Fault(ok)
    /\ LET t     == [IdleTask EXCEPT !.op = "initiate_login"]
           found == find_user_by_email(email)
       IN  IF ~ok THEN Done(p, t, "DatabaseError")
           ELSE IF ~IsSome(found) THEN Done(p, t, "UserNotFound")
           ELSE LET user == Unwrap(found)
                    tu   == [t EXCEPT !.user_id = user.id]
                IN  IF is_locked(user, now)
                    THEN Done(p, tu, "AccountLocked")
                    ELSE Done(p, [tu EXCEPT !.response = Some(LoginStep(user, now))],
                              "LoginStep")
    /\ UNCHANGED <<tables, now, nextUserId, history>>

\* --------------------------------------------------------- complete_login
\* auth.rs 308-324  generate_access_token: the signed claims
\* A token that always carries mfa_verified = true.
generate_access_token_Verified(user, t) ==
    [sub |-> user.id, exp |-> t + JwtExpiration, iat |-> t,
     mfa_verified |-> TRUE, key |-> "jwt_secret"]

\* auth.rs 308-324: the claims of a fresh access token
generate_access_token(user, t) ==
    [sub |-> user.id, exp |-> t + JwtExpiration, iat |-> t,
     mfa_verified |-> ~unwrap_or(user.mfa_enabled, FALSE),
     key |-> "jwt_secret"]

\* auth.rs 174-177: load the user, verify the password against the loaded hash
complete_login_find(p, email, password, ok) ==
    /\ Free(p)
    /\ Fault(ok)
    /\ LET t     == [IdleTask EXCEPT !.op = "complete_login"]
           found == find_user_by_email(email)
       IN  IF ~ok THEN Done(p, t, "DatabaseError")
           ELSE IF ~IsSome(found) THEN Done(p, t, "UserNotFound")
           ELSE LET user == Unwrap(found)
                    tu   == [t EXCEPT !.user = found, !.user_id = user.id]
                IN  IF ~verify_password(password, user.password_hash)
                    THEN Step(p, [tu EXCEPT !.pc = "increment"])
                    ELSE /\ Cardinality(user_sessions)
                              + Cardinality({q \in Tasks : task[q].pc = "check_lock"})
                              < scenario.sessions
                         /\ Step(p, [tu EXCEPT !.pc = "check_lock"])
    /\ UNCHANGED <<tables, now, nextUserId, history>>

\* A read-modify-write in the application instead: the row the request loaded.
RowForUpdate_Stale(p) == Unwrap(task[p].user)

\* The row the UPDATE of increment_failed_attempts reads: the stored one.
RowForUpdate(p) == users[task[p].user_id]

\* The CASE on the count before the increment instead of after it.
IncrementedRow_LockAfterThird(row, t) ==
    [row EXCEPT !.failed_login_attempts = @ + 1,
                !.account_locked_until =
                    IF row.failed_login_attempts >= LockThreshold
                    THEN Some(t + LockMinutes) ELSE @]

\* auth.rs 249-256: SET failed_login_attempts = failed_login_attempts + 1,
\* account_locked_until = CASE WHEN failed_login_attempts + 1 >= 3 THEN NOW() + 15 min
IncrementedRow(row, t) ==
    [row EXCEPT !.failed_login_attempts = @ + 1,
                !.account_locked_until =
                    IF row.failed_login_attempts + 1 >= LockThreshold
                    THEN Some(t + LockMinutes) ELSE @]

\* auth.rs 246-263: the UPDATE ... RETURNING; no row (user gone) is RowNotFound
increment_failed_attempts_update(p, ok) ==
    LET u == task[p].user_id IN
    /\ task[p].pc = "increment"
    /\ Fault(ok)
    /\ IF ok /\ u \in DOMAIN users
       THEN LET row == IncrementedRow(RowForUpdate(p), now)
            IN  /\ users' = [users EXCEPT ![u] = row]
                /\ history' = [history EXCEPT ![u] = @ + 1]
                /\ Step(p, [task[p] EXCEPT !.pc = "log_failed", !.user = None,
                                   !.failed_count = Some(row.failed_login_attempts),
                                   !.ordinal = history[u] + 1])
       ELSE /\ Done(p, task[p], "DatabaseError")
            /\ UNCHANGED <<users, history>>
    /\ UNCHANGED <<user_sessions, security_events, subscriptions, destruction_logs,
                   now, nextUserId>>

\* A strict comparison instead.
DestructionDue_AfterFifth(failed_count) == failed_count > DestructionThreshold

\* auth.rs 279: failed_count.unwrap_or(0) >= 5
DestructionDue(failed_count) == failed_count >= DestructionThreshold

\* auth.rs 265-288 and 179-180: log login_failed; below the threshold the caller
\* returns InvalidCredentials, at it trigger_destruction starts
increment_failed_attempts_log(p, ok) ==
    /\ task[p].pc = "log_failed"
    /\ Fault(ok)
    /\ log_security_event(task[p].user_id, "login_failed", task[p].failed_count, ok)
    /\ IF DestructionDue(Unwrap(task[p].failed_count))
       THEN Step(p, [task[p] EXCEPT !.pc = "tx_begin", !.logged = TRUE])
       ELSE Done(p, [task[p] EXCEPT !.logged = TRUE],
                    LogOutcome(ok, "InvalidCredentials"))
    /\ UNCHANGED <<users, user_sessions, subscriptions, destruction_logs,
                   now, nextUserId, history>>

\* ----------------------------------------------------- trigger_destruction
\* The committed rows that belong to user u.
RowsOf(u) ==
    [user     |-> {u} \cap DOMAIN users,
     sessions |-> {r \in user_sessions : r.user_id = u},
     events   |-> {r \in security_events : r.user_id = u},
     subs     |-> {r \in subscriptions : r.user_id = u}]

\* tx.commit(): the writes of the transaction reach the tables together.
CommitTables(tx) ==
    /\ destruction_logs' = destruction_logs \cup tx.log
    /\ user_sessions' = user_sessions \ tx.delSessions
    /\ security_events' = security_events \ tx.delEvents
    /\ subscriptions' = subscriptions \ tx.delSubs
    /\ users' = [i \in DOMAIN users \ tx.delUser |-> users[i]]

\* A `?` that returns early drops the transaction: sqlx rolls it back.
DropTx(tx) == UNCHANGED tables

\* trigger_destruction failed: the caller logs the error and still returns
\* DestructionTriggered (auth.rs 280-285).
\* A caller that starts trigger_destruction again when it failed.
DestructionError_Retry(p) ==
    Step(p, [task[p] EXCEPT !.pc = "tx_begin", !.tx = NoTx])

\* auth.rs 279-286: the Err of trigger_destruction is discarded; the request ends
DestructionError(p) ==
    Done(p, [task[p] EXCEPT !.tx = NoTx, !.destruction = "DatabaseError"],
                      "DestructionTriggered")

\* security.rs 66: self.db.begin()
trigger_destruction_begin(p, ok) ==
    /\ task[p].pc = "tx_begin"
    /\ Fault(ok)
    /\ IF ok
       THEN Step(p, [task[p] EXCEPT !.pc = "tx_insert_log"])
       ELSE DestructionError(p)
    /\ UNCHANGED <<tables, now, nextUserId, history>>

TxPcs == <<"tx_insert_log", "tx_delete_sessions", "tx_delete_events",
           "tx_delete_subscriptions", "tx_delete_user", "tx_commit">>

TxIndex(pc) == CHOOSE i \in 1..Len(TxPcs) : TxPcs[i] = pc

\* security.rs 71-102: the statements inside the transaction, in order.  A DELETE
\* takes the committed rows that match when it runs.
TxStatement(pc, tx, u) ==
    CASE pc = "tx_insert_log" ->
           [tx EXCEPT !.log = {[id |-> FreshLogId, user_id |-> u,
                                trigger_type |-> "failed_login_threshold",
                                success |-> TRUE]}]
      [] pc = "tx_delete_sessions" ->
           [tx EXCEPT !.delSessions = {r \in user_sessions : r.user_id = u}]
      [] pc = "tx_delete_events" ->
           [tx EXCEPT !.delEvents = {r \in security_events : r.user_id = u}]
      [] pc = "tx_delete_subscriptions" ->
           [tx EXCEPT !.delSubs = {r \in subscriptions : r.user_id = u}]
      [] pc = "tx_delete_user" ->
           [tx EXCEPT !.delUser = {u} \cap DOMAIN users]

trigger_destruction_statement(p, ok) ==
    LET pc == task[p].pc
        u  == task[p].user_id
    IN
    /\ pc \in {"tx_insert_log", "tx_delete_sessions", "tx_delete_events",
               "tx_delete_subscriptions", "tx_delete_user"}
    /\ Fault(ok)
    /\ IF ok
       THEN /\ Step(p, [task[p] EXCEPT !.pc = TxPcs[TxIndex(pc) + 1],
                               !.tx = TxStatement(pc, task[p].tx, u)])
            /\ UNCHANGED tables
       ELSE /\ DestructionError(p)
            /\ DropTx(task[p].tx)
    /\ UNCHANGED <<now, nextUserId, history>>

\* security.rs 105-109: tx.commit(), Ok(()); the caller returns
\* DestructionTriggered (auth.rs 285)
trigger_destruction_commit(p, ok) ==
    /\ task[p].pc = "tx_commit"
    /\ Fault(ok)
    /\ IF ok
       THEN /\ CommitTables(task[p].tx)
            /\ Done(p, [task[p] EXCEPT !.tx = NoTx, !.destruction = "Ok"],
                                 "DestructionTriggered")
       ELSE /\ DestructionError(p)
            /\ DropTx(task[p].tx)
    /\ UNCHANGED <<now, nextUserId, history>>

\* ------------------------------------------------- complete_login, success
\* An UPDATE that sets last_login only.
ResetRow_KeepCounter(row, t) == [row EXCEPT !.last_login = Some(t)]

\* auth.rs 211: SET last_login = NOW(), failed_login_attempts = 0
ResetRow(row, t) == [row EXCEPT !.last_login = Some(t), !.failed_login_attempts = 0]

\* auth.rs 184-207: the lock check on the loaded user, the tokens, the session INSERT
complete_login_check_lock(p, ok) ==
    LET user == Unwrap(task[p].user)
        t    == [task[p] EXCEPT !.lockedAtCheck =
                     user.id \in DOMAIN users /\ is_locked(users[user.id], now)]
    IN
    /\ task[p].pc = "check_lock"
    /\ IF is_locked(user, now)
       THEN /\ ok
            /\ Done(p, t, "AccountLocked")
            /\ UNCHANGED <<user_sessions, faults>>
       ELSE /\ Fault(ok)
            /\ IF ok
               THEN LET access_token  == generate_access_token(user, now)
                        expires_at    == now + JwtExpiration
                        \* generate_refresh_token: a random value, one per row
                        row == WithFreshId([id |-> 0, user_id |-> user.id,
                                            session_token |-> access_token,
                                            refresh_token |-> 0,
                                            expires_at |-> expires_at])
                        refresh_token == row.refresh_token
                    IN  /\ user_sessions' = user_sessions \cup {row}
                        /\ Step(p, [t EXCEPT !.pc = "reset", !.user = None,
                                        !.response = Some([access_token |-> access_token,
                                                           refresh_token |-> refresh_token,
                                                           expires_at |-> expires_at])])
               ELSE /\ Done(p, t, "DatabaseError")
                    /\ UNCHANGED user_sessions
    /\ UNCHANGED <<users, security_events, subscriptions, destruction_logs,
                   now, nextUserId, history>>

\* auth.rs 209-215: UPDATE users SET last_login, failed_login_attempts = 0 WHERE id
complete_login_reset(p, ok) ==
    LET u == task[p].user_id IN
    /\ task[p].pc = "reset"
    /\ Fault(ok)
    /\ IF ok
       THEN /\ IF u \in DOMAIN users
               THEN /\ users' = [users EXCEPT ![u] = ResetRow(@, now)]
                    /\ history' = [history EXCEPT ![u] = 0]
               ELSE UNCHANGED <<users, history>>
            /\ Step(p, [task[p] EXCEPT !.pc = "log_success"])
       ELSE /\ Done(p, [task[p] EXCEPT !.response = None], "DatabaseError")
            /\ UNCHANGED <<users, history>>
    /\ UNCHANGED <<user_sessions, security_events, subscriptions, destruction_logs,
                   now, nextUserId>>

\* auth.rs 217-233: log login_success, return the LoginResponse
complete_login_log_success(p, ok) ==
    /\ task[p].pc = "log_success"
    /\ Fault(ok)
    /\ log_security_event(task[p].user_id, "login_success", None, ok)
    /\ Done(p, [task[p] EXCEPT !.logged = TRUE], LogOutcome(ok, "Success"))
    /\ UNCHANGED <<users, user_sessions, subscriptions, destruction_logs,
                   now, nextUserId, history>>

\* ------------------------------------------------------------ verify_token
\* The tokens a client may present: tokens this service issued, the same with the
\* signature segment altered, the same claims signed with another secret, and a
\* string that is no JWT.  The field key of a token stands for its signature: the
\* secret that produced it.
IssuedTokens ==
    {generate_access_token([id |-> u, mfa_enabled |-> m], t) :
        u \in UserIds, m \in MfaSettings, t \in 0..MaxIssueTime}

Tampered(token) == [token EXCEPT !.key = "tampered"]

OtherSecret(token) == [token EXCEPT !.key = "other_secret"]

\* It does not split into header, claims and signature: it carries neither.
Malformed == [sub |-> 0, exp |-> 0, iat |-> 0, mfa_verified |-> FALSE, key |-> "not.a.jwt"]

PresentedTokens ==
    IssuedTokens \cup {Tampered(k) : k \in IssuedTokens}
                 \cup {OtherSecret(k) : k \in IssuedTokens} \cup {Malformed}

\* jsonwebtoken::decode with Validation::default(): the segments, the signature
\* under the key, then exp against the clock reading t with the leeway.
decode(token, key, leeway, t) ==
    IF token = Malformed THEN [err |-> "InvalidToken", claims |-> None]
    ELSE IF token.key # key THEN [err |-> "InvalidSignature", claims |-> None]
    ELSE IF token.exp < t - leeway THEN [err |-> "ExpiredSignature", claims |-> None]
    ELSE [err |-> "none",
          claims |-> Some([sub |-> token.sub, exp |-> token.exp, iat |-> token.iat,
                           mfa_verified |-> token.mfa_verified])]

\* The error of decode handed on as it is.
verify_token_Leaky(token, t) ==
    LET d == decode(token, "jwt_secret", ValidationLeeway, t)
    IN  [result |-> IF d.err = "none" THEN "Claims" ELSE d.err, claims |-> d.claims]

\* A verification that also looks the token up among the stored sessions.
verify_token_Stateful(token, t) ==
    LET d    == decode(token, "jwt_secret", ValidationLeeway, t)
        live == d.err = "none" /\ \E r \in user_sessions : r.session_token = token
    IN  [result |-> IF live THEN "Claims" ELSE "InvalidToken",
         claims |-> IF live THEN d.claims ELSE None]

\* auth.rs 336-344  verify_token: .map(claims) .map_err(|_| InvalidToken)
verify_token(token, t) ==
    LET d == decode(token, "jwt_secret", ValidationLeeway, t)
    IN  [result |-> IF d.err = "none" THEN "Claims" ELSE "InvalidToken",
         claims |-> d.claims]

\* websocket.rs 288-303  authenticate_user: a client presents a token
authenticate_user(p, token) ==
    /\ Free(p)
    /\ LET v == verify_token(token, now)
       IN  Done(p, [IdleTask EXCEPT !.op = "verify_token",
                                    \* Ok(user_id): claims.sub parsed
                                    !.user_id = IF v.result = "Claims"
                                                THEN Unwrap(v.claims).sub ELSE 0,
                                    !.response = Some([token |-> token, at |-> now,
                                                       claims |-> v.claims])],
                   v.result)
    /\ UNCHANGED <<tables, now, nextUserId, faults, history>>

\* The clock of token verification advances, minute by minute.
TokenTick ==
    /\ now < MaxTokenTime
    /\ now' = now + 1
    /\ UNCHANGED <<tables, nextUserId, faults, task, returned, scenario, history,
                   wsVars>>

\* ---------------------------------------------------------------- handlers
\* handlers/auth.rs 28-51  register: the status and message for a service result
register(result) ==
    CASE result = "Ok"                -> <<200, "User registered successfully">>
      [] result = "UserAlreadyExists" -> <<409, "User already exists">>
      [] OTHER                        -> <<500, "Registration failed">>

\* handlers/auth.rs 68-92  login_initiate
login_initiate(result) ==
    CASE result = "LoginStep"     -> <<200, "LoginStep">>
      [] result = "UserNotFound"  -> <<404, "User not found">>
      [] result = "AccountLocked" -> <<423, "Account is locked">>
      [] OTHER                    -> <<500, "Login initiation failed">>

\* handlers/auth.rs 114-141  login_complete
login_complete(result) ==
    CASE result = "Success"              -> <<200, "LoginResponse">>
      [] result = "InvalidCredentials"   -> <<401, "Invalid credentials">>
      [] result = "AccountLocked"        -> <<423, "Account is locked">>
      [] result = "DestructionTriggered" ->
             <<410, "Account has been destroyed due to security policy">>
      [] OTHER                           -> <<500, "Login failed">>

\* What the client of the request gets: the handler that serves the operation.
HandlerResponse(op, result) ==
    CASE op = "register_user"  -> register(result)
      [] op = "initiate_login" -> login_initiate(result)
      [] op = "complete_login" -> login_complete(result)
      [] OTHER                 -> <<0, "">>

\* ------------------------------------------------------------------- spec
Next ==
    \/ Tick
    \/ \E u \in UserIds : Subscribe(u)
    \/ \E p \in Tasks, e \in Emails, w \in RegisterPasswords, ok \in BOOLEAN :
          register_user_find(p, e, w, ok)
    \/ \E p \in Tasks, mfa \in MfaSettings, ok \in BOOLEAN :
          register_user_insert(p, mfa, ok)
    \/ \E p \in Tasks, ok \in BOOLEAN : register_user_log(p, ok)
    \/ \E p \in Tasks, e \in Emails, ok \in BOOLEAN : initiate_login(p, e, ok)
    \/ \E p \in Tasks, e \in Emails, w \in Passwords, ok \in BOOLEAN :
          complete_login_find(p, e, w, ok)
    \/ \E p \in Tasks, ok \in BOOLEAN : increment_failed_attempts_update(p, ok)
    \/ \E p \in Tasks, ok \in BOOLEAN : increment_failed_attempts_log(p, ok)
    \/ \E p \in Tasks, ok \in BOOLEAN : trigger_destruction_begin(p, ok)
    \/ \E p \in Tasks, ok \in BOOLEAN : trigger_destruction_statement(p, ok)
    \/ \E p \in Tasks, ok \in BOOLEAN : trigger_destruction_commit(p, ok)
    \/ \E p \in Tasks, ok \in BOOLEAN : complete_login_check_lock(p, ok)
    \/ \E p \in Tasks, ok \in BOOLEAN : complete_login_reset(p, ok)
    \/ \E p \in Tasks, ok \in BOOLEAN : complete_login_log_success(p, ok)

Spec == Init /\ [][Next]_vars

\* security.rs 30-62: one call of log_security_event by any service: the INSERT,
\* then the diagnostic that the match on risk_level emits.
log_event(user_id, event_type, ok) ==
    /\ Cardinality(security_events) < MaxEvents
    /\ Fault(ok)
    /\ log_security_event(user_id, event_type, None, ok)
    /\ returned' = [NoResponse EXCEPT
                      !.op = "log_security_event",
                      !.user_id = user_id,
                      !.result = tracing_level(calculate_risk_level(event_type)),
                      !.response = Some([event_type |-> event_type,
                                         risk_level |->
                                            calculate_risk_level(event_type)])]
    /\ UNCHANGED <<users, user_sessions, subscriptions, destruction_logs, now,
                   nextUserId, task, scenario, history, wsVars>>

\* The event logger on its own, called with any event type.
RiskInit == Init /\ scenario.faults = MaxFaults

RiskNext ==
    \E user_id \in UserIds, event_type \in EventTypes, ok \in BOOLEAN :
        log_event(user_id, event_type, ok)

RiskSpec == RiskInit /\ [][RiskNext]_vars

\* Token verification on its own: verify_token reads nothing but the token, the
\* secret and the clock.
\* The stores a token may be presented against: the empty one; the one after
\* user 1 registered and logged in at time 0; the one after user 1 was destroyed
\* by five wrong attempts (its sessions and events deleted, the log row added).
LoggedInUser ==
    [id |-> 1, email |-> "a@circle", password_hash |-> hash_password("pw1"),
     failed_login_attempts |-> 0, account_locked_until |-> None,
     last_login |-> Some(0), mfa_enabled |-> None]

EventRow(event_type) ==
    [id |-> 1, user_id |-> 1, event_type |-> event_type, details |-> None,
     risk_level |-> calculate_risk_level(event_type)]

TokenStores ==
    {[users |-> <<>>, user_sessions |-> {}, security_events |-> {},
      destruction_logs |-> {}, nextUserId |-> 1, history |-> [i \in UserIds |-> 0]],
     [users |-> <<LoggedInUser>>,
      user_sessions |-> {[id |-> 1, user_id |-> 1,
                          session_token |-> generate_access_token(LoggedInUser, 0),
                          refresh_token |-> 1, expires_at |-> JwtExpiration]},
      security_events |-> {EventRow("user_registered"), EventRow("login_success")},
      destruction_logs |-> {}, nextUserId |-> 2, history |-> [i \in UserIds |-> 0]],
     [users |-> <<>>, user_sessions |-> {}, security_events |-> {},
      destruction_logs |-> {[id |-> 1, user_id |-> 1,
                             trigger_type |-> "failed_login_threshold",
                             success |-> TRUE]},
      nextUserId |-> 2,
      history |-> [i \in UserIds |-> IF i = 1 THEN DestructionThreshold ELSE 0]]}

StoreIs(st) ==
    /\ users = st.users
    /\ user_sessions = st.user_sessions
    /\ security_events = st.security_events
    /\ subscriptions = {}
    /\ destruction_logs = st.destruction_logs
    /\ nextUserId = st.nextUserId
    /\ history = st.history

TokenInit ==
    /\ \E st \in TokenStores : StoreIs(st)
    /\ now = 0
    /\ faults = 0
    /\ task = [p \in Tasks |-> IdleTask]
    /\ returned = NoResponse
    /\ scenario \in {c \in Scenarios : c.tasks = 1}
    /\ sockets = [s \in Sockets |-> NewSocket]
    /\ connections = {}
    /\ user_presence = {}

TokenNext ==
    \/ TokenTick
    \/ \E p \in Tasks, token \in PresentedTokens : authenticate_user(p, token)

TokenSpec == TokenInit /\ [][TokenNext]_vars

\* ---------------------------------------------------------------- WebSocket
\* The tokens a WebSocket client sends: one of each user, one that does not verify.
SocketTokens ==
    {generate_access_token([id |-> u, mfa_enabled |-> None], 0) : u \in UserIds}
        \cup {Malformed}

SocketStep(s, t) == sockets' = [sockets EXCEPT ![s] = t]

\* HashMap::insert: the entry of the key is replaced
Insert(map, user_id, s) ==
    {c \in map : c.user_id # user_id} \cup {[user_id |-> user_id, socket |-> s]}

\* HashMap::remove: the entry of the key goes, whoever inserted it
Remove(map, user_id) == {c \in map : c.user_id # user_id}

\* websocket.rs 83-107: a client connects, handle_socket waits for its messages
handle_socket(s) ==
    /\ sockets[s].pc = "new"
    /\ SocketStep(s, [sockets[s] EXCEPT !.pc = "receive"])
    /\ UNCHANGED <<tables, now, nextUserId, faults, task, returned, scenario,
                   history, connections, user_presence>>

\* websocket.rs 137-141, 176-182: an Authenticate message: authenticate_user,
\* then authenticated_user = Some(user_id), or AuthResult false
ws_authenticate(s, token) ==
    /\ sockets[s].pc = "receive"
    /\ sockets[s].auths < MaxAuth
    /\ LET v == verify_token(token, now)
       IN  IF v.result = "Claims"
           THEN SocketStep(s, [sockets[s] EXCEPT
                                 !.pc = "insert", !.auths = @ + 1,
                                 !.authenticated_user = Some(Unwrap(v.claims).sub)])
           ELSE SocketStep(s, [sockets[s] EXCEPT !.auths = @ + 1])
    /\ UNCHANGED <<tables, now, nextUserId, faults, task, returned, scenario,
                   history, connections, user_presence>>

\* websocket.rs 143-151: connections.write().await.insert(user_id, connection)
ws_insert(s) ==
    /\ sockets[s].pc = "insert"
    /\ connections' = Insert(connections, Unwrap(sockets[s].authenticated_user), s)
    /\ SocketStep(s, [sockets[s] EXCEPT !.pc = "presence_online"])
    /\ UNCHANGED <<tables, now, nextUserId, faults, task, returned, scenario,
                   history, user_presence>>

\* websocket.rs 315-338: update_user_presence, an upsert; the caller drops its
\* Result (let _ =, lines 154 and 271)
ws_presence(s, ok) ==
    LET u      == Unwrap(sockets[s].authenticated_user)
        status == IF sockets[s].pc = "presence_online" THEN "online" ELSE "offline"
    IN
    /\ sockets[s].pc \in {"presence_online", "presence_offline"}
    /\ Fault(ok)
    /\ user_presence' =
         IF ok THEN {r \in user_presence : r.user_id # u}
                       \cup {[user_id |-> u, status |-> status]}
         ELSE user_presence
    /\ SocketStep(s, [sockets[s] EXCEPT
                         !.pc = IF status = "online" THEN "log_connected"
                                ELSE "log_disconnected"])
    /\ UNCHANGED <<tables, now, nextUserId, task, returned, scenario, history,
                   connections>>

\* websocket.rs 167-173, 275-281: the event of the connection or disconnection;
\* after the first the loop waits for the next message, after the second
\* handle_socket ends
ws_log(s, ok) ==
    LET u == Unwrap(sockets[s].authenticated_user) IN
    /\ sockets[s].pc \in {"log_connected", "log_disconnected"}
    /\ Fault(ok)
    /\ IF sockets[s].pc = "log_connected"
       THEN /\ log_security_event(u, "websocket_connected", None, ok)
            /\ SocketStep(s, [sockets[s] EXCEPT !.pc = "receive"])
       ELSE /\ log_security_event(u, "websocket_disconnected", None, ok)
            /\ SocketStep(s, [sockets[s] EXCEPT !.pc = "closed"])
    /\ UNCHANGED <<users, user_sessions, subscriptions, destruction_logs, now,
                   nextUserId, task, returned, scenario, history, connections,
                   user_presence>>

\* websocket.rs 108-111, 268-269: the client closes: the loop ends
ws_close(s) ==
    /\ sockets[s].pc = "receive"
    /\ SocketStep(s, [sockets[s] EXCEPT
                         !.pc = IF IsSome(sockets[s].authenticated_user)
                                THEN "remove" ELSE "closed"])
    /\ UNCHANGED <<tables, now, nextUserId, faults, task, returned, scenario,
                   history, connections, user_presence>>

\* websocket.rs 270: connections.write().await.remove(&user_id)
ws_remove(s) ==
    /\ sockets[s].pc = "remove"
    /\ connections' = Remove(connections, Unwrap(sockets[s].authenticated_user))
    /\ SocketStep(s, [sockets[s] EXCEPT !.pc = "presence_offline"])
    /\ UNCHANGED <<tables, now, nextUserId, faults, task, returned, scenario,
                   history, user_presence>>

\* The WebSocket service on its own: verify_token reads no table.
SocketInit == Init /\ scenario.faults = MaxFaults

SocketNext ==
    \/ \E s \in Sockets : handle_socket(s)
    \/ \E s \in Sockets, token \in SocketTokens : ws_authenticate(s, token)
    \/ \E s \in Sockets : ws_insert(s)
    \/ \E s \in Sockets, ok \in BOOLEAN : ws_presence(s, ok)
    \/ \E s \in Sockets, ok \in BOOLEAN : ws_log(s, ok)
    \/ \E s \in Sockets : ws_close(s)
    \/ \E s \in Sockets : ws_remove(s)

SocketSpec == SocketInit /\ [][SocketNext]_vars

\* ================================================================= claims
Registered == 1..(nextUserId - 1)       \* the user ids handed out so far
Destroyed  == Registered \ DOMAIN users \* ... whose row is gone

\* C1: whenever complete_login returns DestructionTriggered for a user, that user
\* no longer exists (a later lookup fails with UserNotFound), also when a
\* statement inside trigger_destruction failed.
C1_DestructionTriggeredMeansGone ==
    returned.result = "DestructionTriggered" => returned.user_id \notin DOMAIN users

\* C2: destruction is all-or-nothing: no state shows the user deleted while some
\* of its sessions remain.
C2_NoSessionOfDestroyedUser ==
    \A u \in Destroyed : RowsOf(u).sessions = {}

\* C3: of the invocations of trigger_destruction for one user at most one commits
\* and returns Ok: an invocation that finds the user already gone does not
\* return Ok.
C3_OkOnlyWhenUserRemoved ==
    [][\A p \in Tasks :
          (task[p].pc = "tx_commit" /\ task'[p].pc = "idle"
             /\ returned'.destruction = "Ok")
          => task[p].user_id \in DOMAIN users]_vars

\* C4: failed-attempt increments are never lost: the stored counter is the number
\* of increment UPDATEs executed on the user since the counter was last reset,
\* and each UPDATE returns its own position in that sequence (so concurrent
\* attempts observe distinct counts).
C4_IncrementsNeverLost ==
    /\ \A u \in DOMAIN users : users[u].failed_login_attempts = history[u]
    /\ \A p \in Tasks :
          IsSome(task[p].failed_count) => Unwrap(task[p].failed_count) = task[p].ordinal

C4_Witness ==
    \E p, q \in Tasks :
       /\ p # q
       /\ task[p].pc = "log_failed" /\ task[q].pc = "log_failed"
       /\ task[p].user_id = task[q].user_id
       /\ task[p].failed_count = Some(1) /\ task[q].failed_count = Some(2)
       /\ task[p].user_id \in DOMAIN users
       /\ users[task[p].user_id].failed_login_attempts = 2

\* C5: increment_failed_attempts sets account_locked_until, to 15 minutes after
\* the attempt, exactly when the new count is >= 3; below that it leaves the
\* field as it was, so a fresh user stays unlocked through the first two
\* failures.
C5_LockExactlyFromThird ==
    [][\A u \in DOMAIN users :
          (u \in DOMAIN users'
             /\ users'[u].failed_login_attempts = users[u].failed_login_attempts + 1)
          => /\ users'[u].account_locked_until =
                  IF users'[u].failed_login_attempts >= 3
                  THEN Some(now + 15)
                  ELSE users[u].account_locked_until
             /\ (users'[u].last_login = None /\ users'[u].failed_login_attempts < 3)
                  => users'[u].account_locked_until = None]_vars

C5_Witness ==
    \E u \in DOMAIN users :
       /\ users[u].failed_login_attempts = 3
       /\ users[u].account_locked_until = Some(now + 15)
       /\ \E r \in security_events :
             r.user_id = u /\ r.event_type = "login_failed" /\ r.details = Some(2)

\* C6: while a user's account_locked_until is in the future, complete_login
\* creates no session row for that user.
C6_NoSessionWhileLocked ==
    [][\A u \in DOMAIN users :
          is_locked(users[u], now)
          => {r \in user_sessions' : r.user_id = u} \subseteq user_sessions]_vars

\* C7: a complete_login that returns Success found the stored row unlocked when
\* it performed its lock check.
C7_LockCheckedOnStoredRow ==
    returned.result = "Success" => ~returned.lockedAtCheck

\* C8: counted from a fresh or reset counter, the 1st to 4th wrong-password
\* complete_login return InvalidCredentials and the 5th returns
\* DestructionTriggered, locked or not.
C8_FifthFailureDestroys ==
    returned.ordinal > 0 =>
       /\ returned.ordinal \in 1..4 => returned.result = "InvalidCredentials"
       /\ returned.ordinal >= 5 => returned.result = "DestructionTriggered"

C8_Witness ==
    /\ returned.ordinal = 5
    /\ returned.result = "DestructionTriggered"
    /\ \E p \in Tasks : task[p].pc = "idle"

\* C9: the reset of a successful login stores 0, and a failed attempt on a
\* counter of 0 stores and reports 1, whatever the count was before the reset.
C9_ResetThenCountFromOne ==
    [][\A p \in Tasks :
          LET u == task[p].user_id IN
          /\ (task[p].pc = "reset" /\ task'[p].pc = "log_success" /\ u \in DOMAIN users)
                => users'[u].failed_login_attempts = 0
          /\ (task[p].pc = "increment" /\ task'[p].pc = "log_failed"
                /\ users[u].failed_login_attempts = 0)
                => /\ users'[u].failed_login_attempts = 1
                   /\ task'[p].failed_count = Some(1)]_vars

C9_Witness ==
    \E u \in DOMAIN users :
       /\ users[u].last_login # None
       /\ users[u].failed_login_attempts = 1
       /\ returned.result = "InvalidCredentials" /\ returned.failed_count = Some(1)
       /\ \E r \in security_events :
             r.user_id = u /\ r.event_type = "login_failed" /\ r.details = Some(2)

\* C10: at most one DestructionLog row is ever committed per user.
C10_OneDestructionLogPerUser ==
    \A u \in UserIds : Cardinality({r \in destruction_logs : r.user_id = u}) <= 1

\* The token most recently presented to verify_token, and the time it was.
Presented == Unwrap(returned.response).token
PresentedAt == Unwrap(returned.response).at

\* C15: verify_token accepts a token issued by this service exactly while the
\* clock has not passed its exp claim: Claims while now <= exp, InvalidToken as
\* soon as exp is in the past, with no leeway.
C15_StrictExpiry ==
    (returned.op = "verify_token" /\ Presented \in IssuedTokens)
    => (returned.result = "Claims" <=> PresentedAt <= Presented.exp)

\* C16: verify_token has two outcomes, Claims or InvalidToken: whichever check of
\* decode rejects the token (its form, its signature, its expiry), the caller gets
\* InvalidToken and no claims.
C16_SingleTokenError ==
    returned.op = "verify_token" =>
       /\ returned.result \in {"Claims", "InvalidToken"}
       /\ decode(Presented, "jwt_secret", ValidationLeeway, PresentedAt).err # "none"
            => /\ returned.result = "InvalidToken"
               /\ Unwrap(returned.response).claims = None
       /\ (Presented = Malformed \/ Presented.key # "jwt_secret")
            => returned.result = "InvalidToken"

C16_Witness ==
    /\ returned.op = "verify_token"
    /\ Presented \in IssuedTokens
    /\ decode(Presented, "jwt_secret", ValidationLeeway, PresentedAt).err
         = "ExpiredSignature"
    /\ returned.result = "InvalidToken"

\* C11: a failed destruction leaves forensic evidence: when a DELETE or the commit
\* of trigger_destruction fails, a DestructionLog row for the user is stored
\* afterwards.
C11_FailedDestructionLeavesLog ==
    [][\A p \in Tasks :
          (task[p].pc \in {"tx_delete_sessions", "tx_delete_events",
                           "tx_delete_subscriptions", "tx_delete_user", "tx_commit"}
             /\ task'[p].pc = "idle"
             /\ returned'.destruction = "DatabaseError")
          => \E r \in destruction_logs' : r.user_id = task[p].user_id]_vars

\* C12: when a step of trigger_destruction fails, the call returns
\* DestructionFailed and the user, session, security-event and subscription rows
\* are as they were.
C12_FailureIsDestructionFailed ==
    [][\A p \in Tasks :
          (task[p].pc \in {"tx_begin", "tx_insert_log", "tx_delete_sessions",
                           "tx_delete_events", "tx_delete_subscriptions",
                           "tx_delete_user", "tx_commit"}
             /\ task'[p].pc = "idle"
             /\ faults' = faults + 1)
          => /\ returned'.destruction = "DestructionFailed"
             /\ UNCHANGED <<users, user_sessions, security_events, subscriptions>>]_vars

\* C13: a register_user whose INSERT meets an email that is already present fails
\* with UserAlreadyExists and leaves the users table as it was, also when the
\* other user was created by a concurrent register_user after this one's lookup.
C13_SecondRegistrationRejected ==
    [][\A p \in Tasks :
          (task[p].pc = "insert_user" /\ task'[p].pc # "insert_user"
             /\ ~EmailUnique(task[p].email)
             /\ faults = 0 /\ faults' = 0)
          => /\ returned'.result = "UserAlreadyExists"
             /\ users' = users]_vars

\* C14: login completion does not reveal whether the email exists: a
\* complete_login that found no user gives the caller the result, the status and
\* the message of a wrong password on an existing account.
C14_NoUserEnumeration ==
    (returned.op = "complete_login" /\ returned.user_id = 0
       /\ returned.result # "DatabaseError")
    => /\ returned.result = "InvalidCredentials"
       /\ login_complete(returned.result) = login_complete("InvalidCredentials")

\* C17: every authentication failure handed to the caller was preceded by a call of
\* log_security_event in that request: complete_login returning InvalidCredentials,
\* AccountLocked or DestructionTriggered, initiate_login returning AccountLocked or
\* UserNotFound.
C17_FailuresAreLogged ==
    (\/ /\ returned.op = "complete_login"
        /\ returned.result \in {"InvalidCredentials", "AccountLocked",
                                "DestructionTriggered"}
     \/ /\ returned.op = "initiate_login"
        /\ returned.result \in {"AccountLocked", "UserNotFound"})
    => returned.logged

\* C18: logging is best effort: the step of register_user, of complete_login and
\* of increment_failed_attempts that logs leaves the user and session rows alone
\* and continues to the same result whether or not the INSERT into
\* security_events succeeded; it never turns into an error.
C18_LoggingIsBestEffort ==
    [][\A p \in Tasks :
          LET t == task[p] IN
          (t.pc \in {"log_registered", "log_failed", "log_success"} /\ task'[p] # t)
          => /\ users' = users /\ user_sessions' = user_sessions
             /\ t.pc = "log_registered"
                  => task'[p].pc = "idle" /\ returned'.result = "Ok"
             /\ t.pc = "log_success"
                  => /\ task'[p].pc = "idle" /\ returned'.result = "Success"
                     /\ returned'.response = t.response
             /\ t.pc = "log_failed"
                  => IF Unwrap(t.failed_count) >= 5
                     THEN task'[p].pc = "tx_begin"
                     ELSE task'[p].pc = "idle"
                          /\ returned'.result = "InvalidCredentials"]_vars

C18_Witness ==
    /\ faults > 0
    /\ returned.result = "Success"
    /\ returned.user_id \in DOMAIN users
    /\ users[returned.user_id].failed_login_attempts = 0
    /\ \E r \in user_sessions : r.user_id = returned.user_id
    /\ \A r \in security_events :
          r.user_id = returned.user_id => r.event_type # "login_success"

\* The one table of the error-to-status mapping.
StatusTable(result) ==
    CASE result = "UserAlreadyExists"    -> 409
      [] result = "UserNotFound"         -> 404
      [] result = "AccountLocked"        -> 423
      [] result = "InvalidCredentials"   -> 401
      [] result = "DestructionTriggered" -> 410
      [] OTHER                           -> 500

\* C19: register, login_initiate and login_complete all map a service error to
\* the status of the one table.
C19_OneStatusTable ==
    (returned.op \in {"register_user", "initiate_login", "complete_login"}
       /\ returned.result \notin {"Ok", "LoginStep", "Success"})
    => HandlerResponse(returned.op, returned.result)[1] = StatusTable(returned.result)

InitiateLoginAnswers ==
    /\ task' = task
    /\ returned'.op = "initiate_login"
    /\ returned' # returned \/ faults' # faults

C21_InitiateLoginReadOnly ==
    [][InitiateLoginAnswers =>
          /\ UNCHANGED <<users, user_sessions, security_events, subscriptions,
                         destruction_logs, history, now, nextUserId>>
          /\ LET known == {u \in DOMAIN users : users[u].email \in Emails}
             IN  IF faults' # faults
                 THEN returned'.result = "DatabaseError"
                 ELSE IF known = {}
                 THEN returned'.result = "UserNotFound"
                 ELSE \E u \in known :
                        /\ returned'.user_id = u
                        /\ IF /\ users[u].account_locked_until # None
                              /\ Unwrap(users[u].account_locked_until) > now
                           THEN /\ returned'.result = "AccountLocked"
                                /\ returned'.response = None
                           ELSE /\ returned'.result = "LoginStep"
                                /\ returned'.response =
                                      Some([step |-> 1, expires_at |-> now + 5,
                                            requires_mfa |->
                                               (users[u].mfa_enabled = Some(TRUE))])
      ]_vars

C21_Witness ==
    /\ returned.op = "initiate_login"
    /\ returned.result = "LoginStep"
    /\ Unwrap(returned.response).requires_mfa
    /\ returned.user_id \in DOMAIN users
    /\ users[returned.user_id].failed_login_attempts = 2
    /\ users[returned.user_id].mfa_enabled = Some(TRUE)

\* C22: the access token a complete_login issues carries mfa_verified = true
\* exactly when the user's mfa_enabled is false or unset; a user with MFA
\* enabled never gets a token with mfa_verified = true, neither in the response
\* nor in the stored session.
C22_MfaVerifiedIffMfaOff ==
    [][\A p \in Tasks :
          (task[p].pc = "check_lock" /\ task'[p].pc = "reset")
            => LET user  == Unwrap(task[p].user)
                   token == Unwrap(task'[p].response).access_token
               IN  /\ token.sub = user.id
                   /\ token.mfa_verified <=> user.mfa_enabled \in {None, Some(FALSE)}
                   /\ user.id \in DOMAIN users
                        => users[user.id].mfa_enabled = user.mfa_enabled
                   /\ \A r \in user_sessions' \ user_sessions :
                         r.session_token.mfa_verified
                            <=> user.mfa_enabled # Some(TRUE)
      ]_vars

C22_Witness ==
    /\ returned.op = "complete_login"
    /\ returned.result = "Success"
    /\ returned.user_id \in DOMAIN users
    /\ users[returned.user_id].mfa_enabled = Some(TRUE)
    /\ ~Unwrap(returned.response).access_token.mfa_verified

\* C23: the risk level of a security event is a function of its event type
\* alone and lies in 1..10: login_success 1, login_failed 3, account_locked 5,
\* suspicious_activity 7, destruction_triggered 10, a type the table does not
\* list 1; the diagnostic emitted with the event is informational for levels
\* 1-3, a warning for 4-6 and an error for 7-10.
C23_Listed ==
    {"login_failed", "login_success", "user_registered", "password_reset",
     "destruction_triggered", "suspicious_activity", "multiple_failed_logins",
     "account_locked"}

C23_Row(event_type, risk_level) ==
    /\ risk_level \in 1..10
    /\ event_type = "login_success"         => risk_level = 1
    /\ event_type = "login_failed"          => risk_level = 3
    /\ event_type = "account_locked"        => risk_level = 5
    /\ event_type = "suspicious_activity"   => risk_level = 7
    /\ event_type = "destruction_triggered" => risk_level = 10
    /\ event_type \notin C23_Listed         => risk_level = 1

C23_RiskLevelTable ==
    /\ \A r \in security_events : C23_Row(r.event_type, r.risk_level)
    /\ \A r1, r2 \in security_events :
          r1.event_type = r2.event_type => r1.risk_level = r2.risk_level
    /\ returned.op = "log_security_event"
          => LET e == Unwrap(returned.response)
             IN  /\ C23_Row(e.event_type, e.risk_level)
                 /\ e.risk_level \in 1..3  => returned.result = "info"
                 /\ e.risk_level \in 4..6  => returned.result = "warn"
                 /\ e.risk_level \in 7..10 => returned.result = "error"

C23_Witness ==
    /\ returned.op = "log_security_event"
    /\ Unwrap(returned.response).event_type = "destruction_triggered"
    /\ returned.result = "error"
    /\ \E r \in security_events :
          r.event_type = "websocket_connected" /\ r.risk_level = 1
    /\ \E r \in security_events :
          r.event_type = "destruction_triggered" /\ r.risk_level = 10

\* C24: a complete_login on an account that is locked, both in the row it loaded
\* and in the store, does not increment failed_login_attempts: the lock check
\* comes before the password verification, so an attempt made during the lock
\* window leaves the user rows as they are.
C24_NoIncrementWhileLocked ==
    [][\A p \in Tasks :
          LET u == task[p].user_id IN
          ( /\ task[p].op = "complete_login"
            /\ task[p].pc # "idle"
            /\ task'[p] # task[p]
            /\ task[p].user # None
            /\ is_locked(Unwrap(task[p].user), now)
            /\ u \in DOMAIN users
            /\ is_locked(users[u], now) )
          => users' = users
      ]_vars

\* C25: a complete_login that returns an error has left no session row of its
\* own in the store, also when the error is a database error of the UPDATE that
\* resets the counter, after the session INSERT.
C25_NoSessionOnError ==
    [][\A p \in Tasks :
          ( /\ task[p].op = "complete_login"
            /\ task[p].pc # "idle"
            /\ task'[p].pc = "idle"
            /\ returned'.result # "Success"
            /\ task[p].response # None )
          => ~\E r \in user_sessions' :
                 /\ r.user_id = task[p].user_id
                 /\ r.session_token = Unwrap(task[p].response).access_token
                 /\ r.refresh_token = Unwrap(task[p].response).refresh_token
      ]_vars

\* C27: between requests, when no request is in flight, every user that exists
\* has failed_login_attempts in 0..4: never negative, never at or above the
\* destruction threshold of 5.
C27_CounterBelowThreshold ==
    (\A p \in Tasks : task[p].pc = "idle")
       => \A u \in DOMAIN users : users[u].failed_login_attempts \in 0..4

\* C28: every session row references a user that exists, and no complete_login
\* that has inserted its session and is on its way to Success refers to a user
\* whose row is gone, also when a correct-password login races with the
\* destruction of the same user.
C28_NoOrphanSession ==
    /\ \A r \in user_sessions : r.user_id \in DOMAIN users
    /\ \A p \in Tasks :
          task[p].pc \in {"reset", "log_success"} => task[p].user_id \in DOMAIN users

\* C26: a complete_login request ends in exactly one terminal outcome, with no
\* retry loop.  Its statements lie in one fixed order and every step of the
\* request either moves forward in that order or ends the request with one of
\* the terminal results; while the request is not finished its next statement
\* can run.  Hence within one request the failed counter is incremented at most
\* once (only by the step that leaves the increment statement, by exactly 1) and
\* trigger_destruction is entered at most once, also when it fails.
C26_Order ==
    <<"increment", "log_failed", "tx_begin", "tx_insert_log", "tx_delete_sessions",
      "tx_delete_events", "tx_delete_subscriptions", "tx_delete_user", "tx_commit",
      "check_lock", "reset", "log_success">>

C26_Pos(pc) == CHOOSE i \in 1..Len(C26_Order) : C26_Order[i] = pc

C26_Terminal ==
    {"Success", "InvalidCredentials", "AccountLocked", "DestructionTriggered",
     "UserNotFound", "DatabaseError"}

C26_Continue(p) ==
    \E ok \in BOOLEAN :
       \/ increment_failed_attempts_update(p, ok)
       \/ increment_failed_attempts_log(p, ok)
       \/ trigger_destruction_begin(p, ok)
       \/ trigger_destruction_statement(p, ok)
       \/ trigger_destruction_commit(p, ok)
       \/ complete_login_check_lock(p, ok)
       \/ complete_login_reset(p, ok)
       \/ complete_login_log_success(p, ok)

C26_OneOutcomeNoRetry ==
    [][\A p \in Tasks :
          LET t  == task[p]
              t2 == task'[p]
              u  == t.user_id
          IN
          /\ (t.op = "complete_login" /\ t.pc # "idle") => ENABLED C26_Continue(p)
          /\ (t.op = "complete_login" /\ t.pc # "idle" /\ t2 # t)
               => \/ /\ t2.pc = "idle"
                     /\ returned'.op = "complete_login"
                     /\ returned'.result \in C26_Terminal
                  \/ /\ t2.pc # "idle"
                     /\ t2.op = "complete_login"
                     /\ C26_Pos(t2.pc) > C26_Pos(t.pc)
                     /\ returned' = returned
          /\ (t.pc = "idle" /\ t2.pc # "idle" /\ t2.op = "complete_login")
               => t2.pc \in {"increment", "check_lock"} /\ t2.ordinal = 0
          /\ (t.op = "complete_login" /\ t2 # t /\ u \in DOMAIN users
                 /\ u \in DOMAIN users'
                 /\ users'[u].failed_login_attempts > users[u].failed_login_attempts)
               => /\ t.pc = "increment"
                  /\ users'[u].failed_login_attempts
                        = users[u].failed_login_attempts + 1
          /\ (t2 # t /\ t2.pc = "tx_insert_log") => t.pc = "tx_begin"
          /\ (t2 # t /\ t2.pc = "tx_begin") => t.pc = "log_failed"
      ]_vars

C26_Witness ==
    /\ returned.op = "complete_login"
    /\ returned.result = "DestructionTriggered"
    /\ returned.destruction = "DatabaseError"
    /\ returned.ordinal = 5
    /\ returned.user_id \in DOMAIN users
    /\ users[returned.user_id].failed_login_attempts = 5
    /\ \A p \in Tasks : task[p].pc = "idle"

\* C29: verify_token is stateless: whether a presented token verifies is
\* settled by the token, the server secret and the clock alone, whatever the
\* user and session tables hold.  Hence a token issued to a user who has since
\* been destroyed still verifies, and authenticate_user still yields its user
\* id, at every time up to the token's exp.
C29_StatelessVerification ==
    returned.op = "verify_token" =>
       /\ returned.result = "Claims"
            <=> /\ Presented # Malformed
                /\ Presented.key = "jwt_secret"
                /\ PresentedAt <= Presented.exp + 1
       /\ (Presented \in IssuedTokens /\ PresentedAt <= Presented.exp)
            => /\ returned.result = "Claims"
               /\ returned.user_id = Presented.sub
               /\ Unwrap(Unwrap(returned.response).claims).sub = Presented.sub

C29_Witness ==
    /\ returned.op = "verify_token"
    /\ returned.result = "Claims"
    /\ Presented.sub \in Destroyed
    /\ returned.user_id = Presented.sub
    /\ Presented.iat = 0
    /\ PresentedAt = Presented.exp
    /\ user_sessions = {}
    /\ \E r \in destruction_logs : r.user_id = Presented.sub

\* The stores that token verification starts from are states of the service.
StoreReached(i) ==
    /\ \E st \in TokenStores : st.nextUserId + Cardinality(st.destruction_logs) = i
                                /\ StoreIs(st)
    /\ \A p \in Tasks : task[p].pc = "idle"
    /\ now = 0 /\ faults = 0

\* C30: the connection registry tracks live connections exactly: whenever no
\* socket is in the middle of handling an Authenticate message or a disconnect,
\* a user id is a key of connections if and only if some open socket is
\* authenticated as that user.
C30_RegistryExact ==
    (\A s \in Sockets : sockets[s].pc \in {"new", "receive", "closed"})
       => \A u \in UserIds :
             (\E c \in connections : c.user_id = u)
                <=> \E s \in Sockets : /\ sockets[s].pc = "receive"
                                       /\ sockets[s].authenticated_user = Some(u)

====
